---------------------------- MODULE Spec2Model ----------------------------
(***************************************************************************)
(* clocker: the day-entry state machine (timelog/timelogentry.rs), its     *)
(* flat five-field record form, and the TimeLog update engine and loader   *)
(* (timelog.rs).                                                           *)
(*                                                                         *)
(* Dates are day numbers, times are minute readings.  Option<NaiveTime>    *)
(* is a sequence of length 0 (None) or 1 (Some(t)).                        *)
(***************************************************************************)
EXTENDS Integers, Sequences, FiniteSets, TLC

VARIABLES
    codec,   \* the codec bench: one record, the entry made from it, history
    log,     \* the TimeLog the program holds: entries, today, current_time
    pre,     \* the TimeLog as it was handed to the last call
    ret,     \* what the last call returned
    op,      \* the last call made
    input,   \* the file read, when the last call was from_file
    start,   \* the TimeLog as from_file first returned it
    calls,   \* number of update calls made so far
    hist,    \* the clock readings of the update calls that were recorded
    disk,    \* the csv file on disk, as text: a header line and rows of cells
    run      \* the last run of the program on the disk file

vars == <<codec, log, pre, ret, op, input, start, calls, hist, disk, run>>

(***************************************************************************)
(* Bounds.                                                                 *)
(***************************************************************************)
MaxDate == 2
MaxTime == 2
MaxRows == 2
MaxCalls == 2
MaxSeqCalls == 5
FileTime == 1

Dates == 1..MaxDate
Times == 1..MaxTime

None == <<>>
Some(t) == <<t>>
OptionTimes == {None} \cup {Some(t) : t \in Times}

(***************************************************************************)
(* DayState: a variant and the times it carries.                           *)
(***************************************************************************)
FreshDay == [variant |-> "FreshDay", times |-> <<>>]
MorningStarted(a) == [variant |-> "MorningStarted", times |-> <<a>>]
MorningFinished(a, b) == [variant |-> "MorningFinished", times |-> <<a, b>>]
AfternoonStarted(a, b, c) == [variant |-> "AfternoonStarted", times |-> <<a, b, c>>]
DayFinished(a, b, c, d) == [variant |-> "DayFinished", times |-> <<a, b, c, d>>]

TimeLogEntry(d, s) == [date |-> d, state |-> s]

TimeLogEntryDTO(d, sa, ea, sp, ep) ==
    [date |-> d, start_am |-> sa, end_am |-> ea, start_pm |-> sp, end_pm |-> ep]

\* TimeLogEntry::new
TimeLogEntryNew(date, start_am) == TimeLogEntry(date, MorningStarted(start_am))

\* A transition that overwrites the first recorded time with the new one.
transitionClobber(e, time) ==
    LET s == e.state
        t == s.times
        new_state ==
            CASE s.variant = "FreshDay" -> MorningStarted(time)
              [] s.variant = "MorningStarted" -> MorningFinished(time, time)
              [] s.variant = "MorningFinished" -> AfternoonStarted(time, t[2], time)
              [] s.variant = "AfternoonStarted" -> DayFinished(time, t[2], t[3], time)
              [] s.variant = "DayFinished" -> DayFinished(t[1], t[2], t[3], time)
    IN  [e EXCEPT !.state = new_state]

\* A transition that records the new time in front of the earlier ones.
transitionFront(e, time) ==
    LET s == e.state
        t == s.times
        new_state ==
            CASE s.variant = "FreshDay" -> MorningStarted(time)
              [] s.variant = "MorningStarted" -> MorningFinished(time, t[1])
              [] s.variant = "MorningFinished" -> AfternoonStarted(time, t[1], t[2])
              [] s.variant = "AfternoonStarted" -> DayFinished(time, t[1], t[2], t[3])
              [] s.variant = "DayFinished" -> DayFinished(t[1], t[2], t[3], t[4])
    IN  [e EXCEPT !.state = new_state]

\* TimeLogEntry::transition
transition(e, time) ==
    LET s == e.state
        t == s.times
        new_state ==
            CASE s.variant = "FreshDay" -> MorningStarted(time)
              [] s.variant = "MorningStarted" -> MorningFinished(t[1], time)
              [] s.variant = "MorningFinished" -> AfternoonStarted(t[1], t[2], time)
              [] s.variant = "AfternoonStarted" -> DayFinished(t[1], t[2], t[3], time)
              [] s.variant = "DayFinished" -> DayFinished(t[1], t[2], t[3], t[4])
    IN  [e EXCEPT !.state = new_state]

\* A decoder that takes the variant from the number of populated cells,
\* wherever they are.
FromDTOCount(dto) ==
    LET cells == <<dto.start_am, dto.end_am, dto.start_pm, dto.end_pm>>
        vals == SelectSeq(cells, LAMBDA c : c # None)
        v(i) == vals[i][1]
        state ==
            CASE Len(vals) = 0 -> FreshDay
              [] Len(vals) = 1 -> MorningStarted(v(1))
              [] Len(vals) = 2 -> MorningFinished(v(1), v(2))
              [] Len(vals) = 3 -> AfternoonStarted(v(1), v(2), v(3))
              [] Len(vals) = 4 -> DayFinished(v(1), v(2), v(3), v(4))
    IN  TimeLogEntry(dto.date, state)

\* impl From<TimeLogEntryDTO> for TimeLogEntry
FromDTO(dto) ==
    LET sa == dto.start_am
        ea == dto.end_am
        sp == dto.start_pm
        ep == dto.end_pm
        state ==
            CASE sa # None /\ ea # None /\ sp # None /\ ep # None ->
                     DayFinished(sa[1], ea[1], sp[1], ep[1])
              [] sa # None /\ ea # None /\ sp # None /\ ep = None ->
                     AfternoonStarted(sa[1], ea[1], sp[1])
              [] sa # None /\ ea # None /\ sp = None ->
                     MorningFinished(sa[1], ea[1])
              [] sa # None /\ ea = None -> MorningStarted(sa[1])
              [] sa = None -> FreshDay
    IN  TimeLogEntry(dto.date, state)

\* An encoder that writes the afternoon start into the end_pm cell.
ToDTOShifted(value) ==
    LET s == value.state
        t == s.times
        dto == TimeLogEntryDTO(value.date, None, None, None, None)
    IN  CASE s.variant = "MorningStarted" -> [dto EXCEPT !.start_am = Some(t[1])]
          [] s.variant = "MorningFinished" ->
                 [dto EXCEPT !.start_am = Some(t[1]), !.end_am = Some(t[2])]
          [] s.variant = "AfternoonStarted" ->
                 [dto EXCEPT !.start_am = Some(t[1]), !.end_am = Some(t[2]),
                             !.end_pm = Some(t[3])]
          [] s.variant = "DayFinished" ->
                 [dto EXCEPT !.start_am = Some(t[1]), !.end_am = Some(t[2]),
                             !.start_pm = Some(t[3]), !.end_pm = Some(t[4])]
          [] s.variant = "FreshDay" -> dto

\* An encoder that leaves the end_pm cell of a finished day empty.
ToDTODropLast(value) ==
    LET s == value.state
        t == s.times
        dto == TimeLogEntryDTO(value.date, None, None, None, None)
    IN  CASE s.variant = "MorningStarted" -> [dto EXCEPT !.start_am = Some(t[1])]
          [] s.variant = "MorningFinished" ->
                 [dto EXCEPT !.start_am = Some(t[1]), !.end_am = Some(t[2])]
          [] s.variant = "AfternoonStarted" ->
                 [dto EXCEPT !.start_am = Some(t[1]), !.end_am = Some(t[2]),
                             !.start_pm = Some(t[3])]
          [] s.variant = "DayFinished" ->
                 [dto EXCEPT !.start_am = Some(t[1]), !.end_am = Some(t[2]),
                             !.start_pm = Some(t[3])]
          [] s.variant = "FreshDay" -> dto

\* impl From<TimeLogEntry> for TimeLogEntryDTO
ToDTO(value) ==
    LET s == value.state
        t == s.times
        dto == TimeLogEntryDTO(value.date, None, None, None, None)
    IN  CASE s.variant = "MorningStarted" -> [dto EXCEPT !.start_am = Some(t[1])]
          [] s.variant = "MorningFinished" ->
                 [dto EXCEPT !.start_am = Some(t[1]), !.end_am = Some(t[2])]
          [] s.variant = "AfternoonStarted" ->
                 [dto EXCEPT !.start_am = Some(t[1]), !.end_am = Some(t[2]),
                             !.start_pm = Some(t[3])]
          [] s.variant = "DayFinished" ->
                 [dto EXCEPT !.start_am = Some(t[1]), !.end_am = Some(t[2]),
                             !.start_pm = Some(t[3]), !.end_pm = Some(t[4])]
          [] s.variant = "FreshDay" -> dto

(***************************************************************************)
(* Every flat record a file line can hold, gaps included.                  *)
(***************************************************************************)
AllDTOs ==
    { TimeLogEntryDTO(d, sa, ea, sp, ep) :
        d \in Dates, sa \in OptionTimes, ea \in OptionTimes,
        sp \in OptionTimes, ep \in OptionTimes }


(***************************************************************************)
(* Results and errors (error.rs).                                          *)
(***************************************************************************)
Ok(v) == [ok |-> TRUE, val |-> v]
Err(e) == [ok |-> FALSE, err |-> e]

ShiftComplete == [kind |-> "ShiftComplete"]
FileParseError(errors) == [kind |-> "FileParseError", errors |-> errors]

(***************************************************************************)
(* TimeLog (timelog.rs).  A clock reading is [date, time], the time        *)
(* already cut to the minute.                                              *)
(***************************************************************************)
Clock == [date : Dates, time : Times]

\* TimeLog::new
new(entries, now) ==
    [entries |-> entries, today |-> now.date, current_time |-> now.time]

\* TimeLog::empty
empty(now) == new(<<>>, now)

NewDay(date, time) == [kind |-> "NewDay", date |-> date, time |-> time]
FillSlot(time) == [kind |-> "FillSlot", time |-> time]

Last(s) == s[Len(s)]

\* A decision that looks at the state before the date: a finished last day
\* always opens a new day.
determine_actionStateFirst(self) ==
    IF self.entries = <<>>
    THEN Ok(NewDay(self.today, self.current_time))
    ELSE IF Last(self.entries).state.variant = "DayFinished"
    THEN Ok(NewDay(self.today, self.current_time))
    ELSE IF Last(self.entries).date # self.today
    THEN Ok(NewDay(self.today, self.current_time))
    ELSE Ok(FillSlot(self.current_time))

\* A decision that fills a slot on a finished day too.
determine_actionNoGuard(self) ==
    IF self.entries = <<>>
    THEN Ok(NewDay(self.today, self.current_time))
    ELSE IF Last(self.entries).date # self.today
    THEN Ok(NewDay(self.today, self.current_time))
    ELSE Ok(FillSlot(self.current_time))

\* A decision that fills the next slot of an open last entry whatever its
\* date is.
determine_actionAnyDate(self) ==
    IF self.entries = <<>>
    THEN Ok(NewDay(self.today, self.current_time))
    ELSE IF Last(self.entries).state.variant # "DayFinished"
    THEN Ok(FillSlot(self.current_time))
    ELSE IF Last(self.entries).date # self.today
    THEN Ok(NewDay(self.today, self.current_time))
    ELSE Err(ShiftComplete)

\* A decision that refuses a finished last day whatever its date is.
determine_actionFinished(self) ==
    IF self.entries = <<>>
    THEN Ok(NewDay(self.today, self.current_time))
    ELSE IF Last(self.entries).state.variant = "DayFinished"
    THEN Err(ShiftComplete)
    ELSE IF Last(self.entries).date # self.today
    THEN Ok(NewDay(self.today, self.current_time))
    ELSE Ok(FillSlot(self.current_time))

\* TimeLog::determine_action
determine_action(self) ==
    IF self.entries = <<>>
    THEN Ok(NewDay(self.today, self.current_time))
    ELSE IF Last(self.entries).date # self.today
    THEN Ok(NewDay(self.today, self.current_time))
    ELSE IF Last(self.entries).state.variant = "DayFinished"
    THEN Err(ShiftComplete)
    ELSE Ok(FillSlot(self.current_time))

\* An apply step that starts the new day with no slot filled.
apply_actionFresh(self, action) ==
    CASE action.kind = "NewDay" ->
             [self EXCEPT !.entries =
                 Append(@, TimeLogEntry(action.date, FreshDay))]
      [] action.kind = "FillSlot" ->
             IF self.entries # <<>>
             THEN [self EXCEPT !.entries[Len(self.entries)] =
                       transition(@, action.time)]
             ELSE self

\* An apply step that fills the slot of the first entry, not the last.
apply_actionFirst(self, action) ==
    CASE action.kind = "NewDay" ->
             [self EXCEPT !.entries =
                 Append(@, TimeLogEntryNew(action.date, action.time))]
      [] action.kind = "FillSlot" ->
             IF self.entries # <<>>
             THEN [self EXCEPT !.entries[1] = transition(@, action.time)]
             ELSE self

\* An apply step that advances the last entry by two slots.
apply_actionTwice(self, action) ==
    CASE action.kind = "NewDay" ->
             [self EXCEPT !.entries =
                 Append(@, TimeLogEntryNew(action.date, action.time))]
      [] action.kind = "FillSlot" ->
             IF self.entries # <<>>
             THEN [self EXCEPT !.entries[Len(self.entries)] =
                       transition(transition(@, action.time), action.time)]
             ELSE self

\* An apply step that starts the log over with the new day.
apply_actionRestart(self, action) ==
    CASE action.kind = "NewDay" ->
             [self EXCEPT !.entries =
                 <<TimeLogEntryNew(action.date, action.time)>>]
      [] action.kind = "FillSlot" ->
             IF self.entries # <<>>
             THEN [self EXCEPT !.entries[Len(self.entries)] =
                       transition(@, action.time)]
             ELSE self

\* TimeLog::apply_action
apply_action(self, action) ==
    CASE action.kind = "NewDay" ->
             [self EXCEPT !.entries =
                 Append(@, TimeLogEntryNew(action.date, action.time))]
      [] action.kind = "FillSlot" ->
             IF self.entries # <<>>
             THEN [self EXCEPT !.entries[Len(self.entries)] =
                       transition(@, action.time)]
             ELSE self

\* TimeLog::update
update(self) ==
    LET action == determine_action(self)
    IN  IF action.ok THEN Ok(apply_action(self, action.val)) ELSE action

(***************************************************************************)
(* Files.  A file is absent, or holds its records after the header line.   *)
(* A record either deserializes to a TimeLogEntryDTO or fails to.          *)
(***************************************************************************)
Malformed == [malformed |-> TRUE]
IsMalformed(r) == "malformed" \in DOMAIN r

AbsentFile == [exists |-> FALSE, records |-> <<>>]
FileOf(records) == [exists |-> TRUE, records |-> records]

\* csv::Error of the record at position i
CsvError(i) == [record |-> i]

\* The reader loop of from_file: entries and errors after the records from
\* position i on are read.
RECURSIVE ReadRecords(_, _, _, _)
ReadRecords(records, i, entries, errors) ==
    IF i > Len(records)
    THEN [entries |-> entries, errors |-> errors]
    ELSE IF IsMalformed(records[i])
    THEN ReadRecords(records, i + 1, entries, Append(errors, CsvError(i)))
    ELSE ReadRecords(records, i + 1, Append(entries, FromDTO(records[i])), errors)

\* A loader that stops at the first record that fails.
from_fileFailFast(file, now) ==
    IF ~file.exists
    THEN Ok(empty(now))
    ELSE LET read == ReadRecords(file.records, 1, <<>>, <<>>)
         IN  IF read.errors = <<>>
             THEN Ok(new(read.entries, now))
             ELSE Err(FileParseError(<<read.errors[1]>>))

\* TimeLog::from_file
from_file(file, now) ==
    IF ~file.exists
    THEN Ok(empty(now))
    ELSE LET read == ReadRecords(file.records, 1, <<>>, <<>>)
         IN  IF read.errors = <<>>
             THEN Ok(new(read.entries, now))
             ELSE Err(FileParseError(read.errors))

(***************************************************************************)
(* The codec bench: a record as a file line holds it is decoded, the entry *)
(* is advanced by transition any number of times, encoded and decoded      *)
(* again.  codec.before is the entry as it was before the last step,       *)
(* codec.time the time the last transition was given, codec.raw the record *)
(* first read.                                                             *)
(***************************************************************************)
NoEntry == TimeLogEntry(1, FreshDay)

CodecIdle ==
    LET d == TimeLogEntryDTO(1, None, None, None, None)
    IN  [dto |-> d, raw |-> d, entry |-> NoEntry, before |-> NoEntry,
         last |-> "record", time |-> 1]


NoLog == [none |-> TRUE]
NoResult == [none |-> TRUE]

\* The text of a csv file: the names of its header line (none when the file
\* has no line at all) and its rows, each a sequence of cells; a cell is
\* empty (None) or holds the text of one date or time (Some).
CsvFile(header, rows) == [exists |-> TRUE, header |-> header, rows |-> rows]
NoDisk == [exists |-> FALSE, header |-> <<>>, rows |-> <<>>]
NoRun == [ran |-> FALSE]

EngineIdle ==
    /\ log = NoLog
    /\ pre = NoLog
    /\ ret = NoResult
    /\ op = "start"
    /\ input = AbsentFile
    /\ start = NoLog
    /\ calls = 0
    /\ hist = <<>>
    /\ disk = NoDisk
    /\ run = NoRun

aux == <<hist, disk, run>>

engine == <<log, pre, ret, op, input, start, calls, hist, disk, run>>

Decode ==
    /\ codec.last \in {"record", "encode"}
    /\ codec' = [codec EXCEPT
                    !.entry = FromDTO(codec.dto),
                    !.before = codec.entry,
                    !.last = IF codec.last = "encode" THEN "redecode" ELSE "decode"]
    /\ UNCHANGED engine

Transition(time) ==
    /\ codec.last \in {"decode", "redecode", "transition"}
    /\ codec' = [codec EXCEPT
                    !.entry = transition(codec.entry, time),
                    !.before = codec.entry,
                    !.time = time,
                    !.last = "transition"]
    /\ UNCHANGED engine

Encode ==
    /\ codec.last \in {"decode", "redecode", "transition"}
    /\ codec' = [codec EXCEPT !.dto = ToDTO(codec.entry), !.last = "encode"]
    /\ UNCHANGED engine

CodecNext ==
    \/ Decode
    \/ \E time \in Times : Transition(time)
    \/ Encode

InitCodec ==
    /\ codec \in { [CodecIdle EXCEPT !.dto = d, !.raw = d] : d \in AllDTOs }
    /\ EngineIdle

SpecCodec == InitCodec /\ [][CodecNext]_vars

(***************************************************************************)
(* Properties of the entry model and the codec, under SpecCodec.           *)
(***************************************************************************)
Variants ==
    <<"FreshDay", "MorningStarted", "MorningFinished", "AfternoonStarted",
      "DayFinished">>

\* The day state that carries exactly the times of the sequence ts.
StateOfTimes(ts) == [variant |-> Variants[Len(ts) + 1], times |-> ts]

Cells(dto) == <<dto.start_am, dto.end_am, dto.start_pm, dto.end_pm>>

\* Number of leading populated cells of a record.
FilledPrefix(dto) ==
    LET c == Cells(dto)
    IN  IF \A i \in 1..4 : c[i] # None
        THEN 4
        ELSE (CHOOSE i \in 1..4 : c[i] = None /\ \A j \in 1..(i - 1) : c[j] # None) - 1

Populated(dto) == {i \in 1..4 : Cells(dto)[i] # None}

HasGap(dto) == \E i \in 1..3 : \E j \in (i + 1)..4 :
                   Cells(dto)[i] = None /\ Cells(dto)[j] # None

\* C4: transition(t) follows the transition table for every state and every
\* time t: a state with fewer than four times gains t as its next time and
\* becomes the next variant, the times already recorded are carried over
\* unchanged, DayFinished stays equal whatever t is, and the date is kept.
C4_TransitionTable ==
    codec.last = "transition" =>
        LET b == codec.before
            a == codec.entry
        IN  /\ a.date = b.date
            /\ a.state = IF Len(b.state.times) < 4
                         THEN StateOfTimes(Append(b.state.times, codec.time))
                         ELSE b.state
            /\ b.state.variant = "DayFinished" => a = b

C4_Witness ==
    /\ codec.last = "transition"
    /\ codec.before.state.variant = "AfternoonStarted"
    /\ codec.entry.state.variant = "DayFinished"
    /\ codec.time # codec.before.state.times[1]
    /\ codec.time # codec.before.state.times[3]

\* C5: decoding the encoded form of an entry gives back the entry: the same
\* date, the same variant, the same times.
C5_DecodeEncodeIdentity ==
    codec.last = "redecode" => codec.entry = codec.before

C5_Witness ==
    /\ codec.last = "redecode"
    /\ codec.before.state.variant = "AfternoonStarted"
    /\ codec.before.state.times[1] # codec.before.state.times[3]
    /\ codec.before.date = MaxDate

\* C6: decode selects the variant of the longest filled prefix of
\* (start_am, end_am, start_pm, end_pm), carries exactly the values of that
\* prefix, and ignores every value after the first absent cell.
C6_LeftmostGap ==
    codec.last \in {"decode", "redecode"} =>
        LET n == FilledPrefix(codec.dto)
        IN  /\ codec.entry.date = codec.dto.date
            /\ codec.entry.state =
                   StateOfTimes([i \in 1..n |-> Cells(codec.dto)[i][1]])

C6_Witness ==
    /\ codec.last = "decode"
    /\ codec.dto.start_am # None
    /\ codec.dto.end_am # None
    /\ codec.dto.start_pm = None
    /\ codec.dto.end_pm # None
    /\ codec.entry.state.variant = "MorningFinished"

\* C7: the encoded form of an entry that was decoded from any record and
\* advanced any number of times has exactly its first n optional cells
\* populated, n being the number of times its variant carries.
C7_SlotPrefix ==
    codec.last = "encode" =>
        LET n == Len(codec.entry.state.times)
        IN  /\ Variants[n + 1] = codec.entry.state.variant
            /\ Populated(codec.dto) = 1..n
            /\ ~HasGap(codec.dto)

C7_Witness ==
    /\ codec.last = "encode"
    /\ HasGap(codec.raw)
    /\ codec.raw.start_am = None
    /\ codec.entry.state.variant = "DayFinished"
    /\ Populated(codec.dto) = 1..4

(***************************************************************************)
(* The engine: one invocation reads the clock and a file (from_file), then *)
(* calls update.  update consumes the TimeLog and returns it, so it can be *)
(* called again on what it returned; a call that fails returns no TimeLog, *)
(* and determine_action, which borrows the TimeLog immutably, has left the *)
(* one it was handed as it was.                                            *)
(***************************************************************************)
\* The records of the files the engine is run on: every date and every
\* presence pattern of the four cells, gaps included, each populated cell
\* holding the time FileTime (the engine never reads a recorded time; the
\* codec bench decodes every value), and the record that fails to decode.
FileCells == {None, Some(FileTime)}

Records ==
    { TimeLogEntryDTO(d, sa, ea, sp, ep) :
        d \in Dates, sa \in FileCells, ea \in FileCells,
        sp \in FileCells, ep \in FileCells } \cup {Malformed}

FromFile(file, now) ==
    /\ LET r == from_file(file, now)
       IN  /\ ret' = r
           /\ log' = IF r.ok THEN r.val ELSE NoLog
           /\ start' = IF r.ok THEN r.val ELSE NoLog
    /\ input' = file
    /\ op' = "from_file"
    /\ UNCHANGED <<codec, pre, calls, aux>>

UpdateCall(max) ==
    /\ log # NoLog
    /\ calls < max
    /\ LET r == update(log)
       IN  /\ ret' = r
           /\ log' = IF r.ok THEN r.val ELSE log
    /\ pre' = log
    /\ op' = "update"
    /\ input' = AbsentFile
    /\ calls' = calls + 1
    /\ UNCHANGED <<codec, start, disk, run>>

Update(max) ==
    /\ UpdateCall(max)
    /\ UNCHANGED hist

\* A later invocation holds the same entries under its own clock reading,
\* taken by TimeLog::new; the date read is never before the one before.
Later(now) ==
    /\ log # NoLog
    /\ op = "update"
    /\ now.date >= log.today
    /\ log' = new(log.entries, now)
    /\ pre' = log
    /\ ret' = Ok(new(log.entries, now))
    /\ op' = "new"
    /\ input' = AbsentFile
    /\ UNCHANGED <<codec, start, calls, aux>>

Load ==
    /\ op = "start"
    /\ \E now \in Clock :
           \/ FromFile(AbsentFile, now)
           \/ \E n \in 0..MaxRows : \E rs \in [1..n -> Records] :
                  FromFile(FileOf(rs), now)

Next ==
    \/ Load
    \/ Update(MaxCalls)
    \/ \E now \in Clock : Later(now)

Init ==
    /\ codec = CodecIdle
    /\ EngineIdle

Spec == Init /\ [][Next]_vars

(***************************************************************************)
(* The same engine started on a path that does not exist, so from the      *)
(* empty log, and followed through more update calls.                      *)
(***************************************************************************)
LoadAbsent ==
    /\ op = "start"
    /\ \E now \in Clock : FromFile(AbsentFile, now)

NextSeq ==
    \/ LoadAbsent
    \/ Update(MaxSeqCalls)
    \/ \E now \in Clock : Later(now)

SpecSeq == Init /\ [][NextSeq]_vars

(***************************************************************************)
(* Properties of update and from_file.                                     *)
(***************************************************************************)
StrictlyIncreasing(entries) ==
    \A i \in 1..Len(entries) : \A j \in (i + 1)..Len(entries) :
        entries[i].date < entries[j].date

\* C1: when the log is empty or its last entry is not dated today, update
\* succeeds and returns the log with exactly one entry appended,
\* (today, MorningStarted(now)); every entry it held is unchanged and in
\* the same position.
C1_AppendRule ==
    (op = "update"
       /\ (pre.entries = <<>> \/ Last(pre.entries).date # pre.today)) =>
        /\ ret.ok
        /\ ret.val = log
        /\ Len(log.entries) = Len(pre.entries) + 1
        /\ \A i \in 1..Len(pre.entries) : log.entries[i] = pre.entries[i]
        /\ Last(log.entries) =
               TimeLogEntry(pre.today, MorningStarted(pre.current_time))

C1_Witness ==
    /\ op = "update"
    /\ Len(pre.entries) = 2
    /\ pre.entries[2].date > pre.today
    /\ pre.entries[2].state.variant = "AfternoonStarted"
    /\ Len(log.entries) = 3

\* C2: when the last entry is dated today and is not DayFinished, update
\* succeeds, keeps the number of entries, every entry but the last and the
\* last entry's date, and replaces the last entry's state by one
\* transition(now) step.
C2_FillRule ==
    (op = "update"
       /\ pre.entries # <<>>
       /\ Last(pre.entries).date = pre.today
       /\ Last(pre.entries).state.variant # "DayFinished") =>
        /\ ret.ok
        /\ ret.val = log
        /\ Len(log.entries) = Len(pre.entries)
        /\ \A i \in 1..(Len(pre.entries) - 1) : log.entries[i] = pre.entries[i]
        /\ Last(log.entries).date = Last(pre.entries).date
        /\ Last(log.entries).state =
               transition(Last(pre.entries), pre.current_time).state
        /\ Len(Last(log.entries).state.times) =
               Len(Last(pre.entries).state.times) + 1

C2_Witness ==
    /\ op = "update"
    /\ Len(pre.entries) = 2
    /\ pre.entries[2].date = pre.today
    /\ pre.entries[2].state.variant = "FreshDay"
    /\ pre.entries[1].state.variant = "MorningStarted"
    /\ log.entries[2].state.variant = "MorningStarted"

\* C3: when the last entry is DayFinished and dated today, update fails with
\* ShiftComplete whatever the time is, and the log is as it was.
C3_ClosedDayFrozen ==
    (op = "update"
       /\ pre.entries # <<>>
       /\ Last(pre.entries).state.variant = "DayFinished"
       /\ Last(pre.entries).date = pre.today) =>
        /\ ret = Err(ShiftComplete)
        /\ log = pre

C3_Witness ==
    /\ op = "update"
    /\ Len(pre.entries) = 2
    /\ Last(pre.entries).state.variant = "DayFinished"
    /\ Last(pre.entries).date = pre.today
    /\ pre.current_time # Last(pre.entries).state.times[4]
    /\ ~ret.ok

\* C8 as stated: from any log whose dates are strictly increasing, update
\* calls with non-decreasing today leave the dates strictly increasing.
C8_Original ==
    (start # NoLog /\ log # NoLog /\ StrictlyIncreasing(start.entries)) =>
        StrictlyIncreasing(log.entries)

\* C8: from the empty log, or from a log whose dates are strictly
\* increasing and whose last date is not after the first today, update
\* calls with non-decreasing today (failed calls included) leave the dates
\* strictly increasing.
C8_MonotoneDates ==
    (start # NoLog /\ log # NoLog
       /\ StrictlyIncreasing(start.entries)
       /\ (start.entries # <<>> => Last(start.entries).date <= start.today)) =>
        StrictlyIncreasing(log.entries)

C8_Witness ==
    /\ op = "update"
    /\ calls = MaxCalls
    /\ Len(start.entries) = 1
    /\ start.entries[1].date = start.today
    /\ start.entries[1].state.variant = "DayFinished"
    /\ Len(log.entries) = 2
    /\ log.entries[2].date > log.entries[1].date
    /\ log.entries[2].state.variant = "MorningStarted"

\* C9 as stated: in a log reached from the empty log, every entry except
\* possibly the last is DayFinished.
C9_Original ==
    log # NoLog =>
        \A i \in 1..(Len(log.entries) - 1) :
            log.entries[i].state.variant = "DayFinished"

\* C9: in a log reached from the empty log by update calls with
\* non-decreasing today, every entry except possibly the last has at least
\* its first slot filled and is left as it is by every update call; it need
\* not be DayFinished.
C9_EarlierDaysFrozen ==
    log # NoLog =>
        /\ \A i \in 1..(Len(log.entries) - 1) :
               log.entries[i].state.variant # "FreshDay"
        /\ op = "update" =>
               \A i \in 1..(Len(pre.entries) - 1) :
                   log.entries[i] = pre.entries[i]

C9_Witness ==
    /\ op = "update"
    /\ Len(log.entries) = 2
    /\ Len(pre.entries) = 2
    /\ log.entries[1].state.variant = "MorningFinished"
    /\ log.entries[2].state.variant = "AfternoonStarted"

\* Positions of the records of a file that fail to deserialize, in file
\* order.
MalformedAt(records) ==
    SelectSeq([i \in 1..Len(records) |-> i],
              LAMBDA i : IsMalformed(records[i]))

\* C10: when k >= 1 of the n records of a file fail to decode, from_file
\* fails with FileParseError holding exactly k errors, one per malformed
\* record in file order, and no log is returned; when k = 0 it succeeds
\* with exactly the n decoded entries in file order.
C10_ErrorAggregation ==
    (op = "from_file" /\ input.exists) =>
        LET records == input.records
            bad == MalformedAt(records)
        IN  IF Len(bad) >= 1
            THEN /\ ~ret.ok
                 /\ ret.err.kind = "FileParseError"
                 /\ Len(ret.err.errors) = Len(bad)
                 /\ \A j \in 1..Len(bad) : ret.err.errors[j] = CsvError(bad[j])
                 /\ log = NoLog
            ELSE /\ ret.ok
                 /\ ret.val = log
                 /\ Len(log.entries) = Len(records)
                 /\ \A i \in 1..Len(records) :
                        log.entries[i] = FromDTO(records[i])

C10_Witness ==
    /\ op = "from_file"
    /\ Len(input.records) = 2
    /\ IsMalformed(input.records[1])
    /\ IsMalformed(input.records[2])
    /\ Len(ret.err.errors) = 2

-----------------------------------------------------------------------------
\* The csv file as the writer and the reader of the csv crate see it.

\* The column names of TimeLogEntryDTO, in declaration order.
Header == <<"date", "start_am", "end_am", "start_pm", "end_pm">>

\* writer.serialize of the first record writes the header line: one name
\* per serialized field; a field skipped by skip_serializing_if = None
\* contributes no name.
serialize_header(dto) ==
    <<Header[1]>> \o SelectSeq([i \in 1..4 |-> Header[i + 1]],
                               LAMBDA n : \E i \in 1..4 : Header[i + 1] = n /\ Cells(dto)[i] # None)

\* writer.serialize of a record writes one cell per serialized field: the
\* date, then the times that are Some; a None field is skipped, not written
\* as an empty cell (the writer is flexible, so rows may differ in length).
serialize(dto) ==
    <<Some(dto.date)>> \o SelectSeq(Cells(dto), LAMBDA c : c # None)

\* persist: create the file, then serialize each entry in order; the header
\* line is written by the first serialize call, so no entry means no line.
persist(self) ==
    LET dtos == [i \in 1..Len(self.entries) |-> ToDTO(self.entries[i])]
    IN  CsvFile(IF dtos = <<>> THEN <<>> ELSE serialize_header(dtos[1]),
                [i \in 1..Len(dtos) |-> serialize(dtos[i])])

\* The cell of a row under the column called name: None when the header has
\* no such column, when the row ends before it, or when the cell is empty.
Column(header, row, name) ==
    IF \E i \in 1..Len(header) : header[i] = name /\ i <= Len(row)
    THEN row[CHOOSE i \in 1..Len(header) : header[i] = name /\ i <= Len(row)]
    ELSE None

\* reader.deserialize of one row: the cells are matched to the fields by the
\* names of the header line, and cells beyond the header are not read.  The
\* date is required; an optional field with no cell defaults to None.
deserialize(header, row) ==
    IF Column(header, row, "date") = None
    THEN Malformed
    ELSE TimeLogEntryDTO(Column(header, row, "date")[1],
                         Column(header, row, "start_am"),
                         Column(header, row, "end_am"),
                         Column(header, row, "start_pm"),
                         Column(header, row, "end_pm"))

\* The records the reader yields for a file on disk.
reader(file) ==
    IF ~file.exists
    THEN AbsentFile
    ELSE FileOf([i \in 1..Len(file.rows) |-> deserialize(file.header, file.rows[i])])

\* persist(path) on the log in memory; the log itself is only borrowed.
Persist ==
    /\ log # NoLog
    /\ op \in {"from_file", "update"}
    /\ disk' = persist(log)
    /\ op' = "persist"
    /\ UNCHANGED <<codec, log, pre, ret, input, start, calls, hist, run>>

\* from_file(path) on the file persist has just written.
Reload ==
    /\ op = "persist"
    /\ \E now \in Clock : ret' = from_file(reader(disk), now)
    /\ op' = "from_file(persisted)"
    /\ UNCHANGED <<codec, log, pre, input, start, calls, hist, disk, run>>

NextFile ==
    \/ LoadAbsent
    \/ Update(MaxSeqCalls)
    \/ \E now \in Clock : Later(now)
    \/ Persist
    \/ Reload

SpecFile == Init /\ [][NextFile]_vars

\* C11: loading a path that does not exist yields the empty log, saving that
\* log produces a file that holds the header line and no record, and loading
\* that file yields the empty log again.
C11_MissingFileRoundTrip ==
    /\ (op = "from_file" /\ ~input.exists) => (ret.ok /\ log.entries = <<>>)
    /\ (op = "persist" /\ calls = 0) => disk = CsvFile(Header, <<>>)
    /\ (op = "from_file(persisted)" /\ calls = 0) => (ret.ok /\ ret.val.entries = <<>>)

-----------------------------------------------------------------------------
\* The program of main.rs: one run reads the file, decides, applies and
\* writes the file back.  Its entries are flat records of the four optional
\* times, the shape of TimeLogEntryDTO.

MaxRuns == 2

main_TimeLogEntry_new(date, start_am) ==
    TimeLogEntryDTO(date, Some(start_am), None, None, None)

main_FillSlot(time_of_day, time) ==
    [kind |-> "FillSlot", time_of_day |-> time_of_day, time |-> time]
NoChange == [kind |-> "NoChange"]

main_determine_action(entries, date, time) ==
    IF entries = <<>> THEN NewDay(date, time)
    ELSE IF Last(entries).date # date THEN NewDay(date, time)
    ELSE IF Last(entries).end_am = None THEN main_FillSlot("EndAM", time)
    ELSE IF Last(entries).start_pm = None THEN main_FillSlot("StartPM", time)
    ELSE IF Last(entries).end_pm = None THEN main_FillSlot("EndPM", time)
    ELSE NoChange

main_apply_action(entries, action) ==
    CASE action.kind = "NoChange" -> entries
      [] action.kind = "NewDay" ->
            Append(entries, main_TimeLogEntry_new(action.date, action.time))
      [] action.kind = "FillSlot" ->
            [entries EXCEPT ![Len(entries)] =
                CASE action.time_of_day = "EndAM" -> [@ EXCEPT !.end_am = Some(action.time)]
                  [] action.time_of_day = "StartPM" -> [@ EXCEPT !.start_pm = Some(action.time)]
                  [] action.time_of_day = "EndPM" -> [@ EXCEPT !.end_pm = Some(action.time)]]

\* read_logs: no file gives no entry; a record that fails to decode is
\* reported on stderr and skipped, and the rest is returned as Ok.
read_logs(file) ==
    Ok(SelectSeq(reader(file).records, LAMBDA r : ~IsMalformed(r)))

\* write_logs: create the file, then serialize each entry in order.
write_logs(entries) ==
    CsvFile(IF entries = <<>> THEN <<>> ELSE serialize_header(entries[1]),
            [i \in 1..Len(entries) |-> serialize(entries[i])])

\* A file as an editor or an earlier version left it: the full header line
\* and five cells per row; a row with no date does not decode.
Text(file) ==
    IF ~file.exists THEN NoDisk
    ELSE CsvFile(Header,
                 [i \in 1..Len(file.records) |->
                     IF IsMalformed(file.records[i])
                     THEN <<None, None, None, None, None>>
                     ELSE <<Some(file.records[i].date)>> \o Cells(file.records[i])])

\* What a run leaves behind: the file it found, the date it read from the
\* clock, how it ended and whether it created the file anew.
Ran(before, today, exit, wrote, n) ==
    [ran |-> TRUE, before |-> before, today |-> today,
     exit |-> exit, wrote |-> wrote, n |-> n]

\* main: read_logs, determine_action, apply_action, write_logs.  No step
\* returns early: the file is created anew and written on every run.
Main(now) ==
    /\ (run.ran => run.n < MaxRuns)
    /\ LET logs == read_logs(disk).val
           action == main_determine_action(logs, now.date, now.time)
           new_logs == main_apply_action(logs, action)
       IN  /\ disk' = write_logs(new_logs)
           /\ run' = Ran(disk, now.date, Ok(<<>>), TRUE,
                         IF run.ran THEN run.n + 1 ELSE 1)
    /\ op' = "main"
    /\ UNCHANGED <<codec, log, pre, ret, input, start, calls, hist>>

NextMain == \E now \in Clock : Main(now)

InitMain ==
    /\ codec = CodecIdle
    /\ log = NoLog
    /\ pre = NoLog
    /\ ret = NoResult
    /\ op = "start"
    /\ input = AbsentFile
    /\ start = NoLog
    /\ calls = 0
    /\ hist = <<>>
    /\ run = NoRun
    /\ disk \in {NoDisk} \cup UNION { {Text(FileOf(rs)) : rs \in [1..n -> Records]} : n \in 0..MaxRows }

SpecMain == InitMain /\ [][NextMain]_vars

\* The records of the file a run found.
Found == reader(run.before).records

\* C12: when the file holds at least one record that fails to decode, the
\* run ends with an error and does not write: the file is as it was found
\* and no row is dropped.
C12_MalformedFatal ==
    (run.ran /\ \E i \in 1..Len(Found) : IsMalformed(Found[i]))
        => (~run.exit.ok /\ ~run.wrote /\ disk = run.before)

\* C13: when the last entry of the file is dated today and has all four
\* slots filled, the run ends with the error ShiftComplete and does not
\* write the file.
C13_NoWriteOnCompletedShift ==
    (/\ run.ran
     /\ Found # <<>>
     /\ \A i \in 1..Len(Found) : ~IsMalformed(Found[i])
     /\ Last(Found).date = run.today
     /\ Populated(Last(Found)) = 1..4)
        => (run.exit = Err(ShiftComplete) /\ ~run.wrote /\ disk = run.before)

-----------------------------------------------------------------------------
\* Sequences of update calls under other clocks.

\* The next invocation holds the same entries under whatever its clock reads.
Again(now) ==
    /\ log # NoLog
    /\ op = "update"
    /\ log' = new(log.entries, now)
    /\ pre' = log
    /\ ret' = Ok(new(log.entries, now))
    /\ op' = "new"
    /\ input' = AbsentFile
    /\ UNCHANGED <<codec, start, calls, aux>>

\* The next invocation reads a clock that has not gone back: a later date,
\* or the same date and a minute that is not earlier.
LaterLex(now) ==
    /\ log # NoLog
    /\ \/ now.date > log.today
       \/ now.date = log.today /\ now.time >= log.current_time
    /\ Again(now)

NextLex ==
    \/ LoadAbsent
    \/ Update(MaxSeqCalls)
    \/ \E now \in Clock : LaterLex(now)

SpecLex == Init /\ [][NextLex]_vars

NonDecreasing(ts) == \A i \in 1..Len(ts) : \A j \in i..Len(ts) : ts[i] <= ts[j]

\* C14: in every log reached from the empty log by update calls whose
\* (today, now) readings do not decrease lexicographically, the recorded
\* times of each entry are non-decreasing in slot order.
C14_EntryTimesOrdered ==
    log # NoLog =>
        \A i \in 1..Len(log.entries) : NonDecreasing(log.entries[i].state.times)

\* A finished day whose first and last stamps differ, after an earlier day.
C14_Witness ==
    /\ log # NoLog
    /\ Len(log.entries) = 2
    /\ log.entries[1].state.variant = "MorningStarted"
    /\ log.entries[2].state.variant = "DayFinished"
    /\ log.entries[2].state.times[1] < log.entries[2].state.times[4]

-----------------------------------------------------------------------------
\* C15: after a successful update the last entry is dated today, so its
\* date is not after today; right after a successful load the last entry
\* carries the date of the last record of the file, whatever today is.
C15_LastDateAfterUpdate ==
    /\ (op = "update" /\ ret.ok) =>
           (log.entries # <<>> /\ Last(log.entries).date = log.today)
    /\ (op = "from_file" /\ ret.ok /\ input.exists /\ input.records # <<>>) =>
           Last(log.entries).date = Last(input.records).date

\* A stamp added to a loaded log whose last entry was dated after today.
C15_Witness ==
    /\ op = "update"
    /\ ret.ok
    /\ pre.entries # <<>>
    /\ Last(pre.entries).date > pre.today
    /\ Last(log.entries).date = log.today

\* C15 as stated: in every log the program holds, right after a successful
\* load and after every successful update, the date of the last entry is
\* not after today.
C15_Original ==
    (op \in {"from_file", "update"} /\ ret.ok /\ log.entries # <<>>) =>
        Last(log.entries).date <= log.today

-----------------------------------------------------------------------------
\* One day stamped call by call.

MaxDayCalls == 6

\* An update call whose clock reading is kept in hist.
Stamp ==
    /\ UpdateCall(MaxDayCalls)
    /\ hist' = Append(hist, [date |-> log.today, time |-> log.current_time])

NextDay ==
    \/ LoadAbsent
    \/ Stamp
    \/ \E now \in Clock : Later(now)

SpecDay == Init /\ [][NextDay]_vars

\* The clock times of the calls made so far with today = d, in call order.
StampsOf(d) ==
    LET mine == SelectSeq(hist, LAMBDA h : h.date = d)
    IN  [i \in 1..Len(mine) |-> mine[i].time]

\* C16: from a log whose last entry is not dated D (or from the empty log),
\* the first four update calls with today = D and times t1..t4 succeed and
\* leave the last entry dated D in MorningStarted(t1), MorningFinished(t1,
\* t2), AfternoonStarted(t1, t2, t3), DayFinished(t1, t2, t3, t4), one slot
\* per call; every further call with today = D fails with ShiftComplete and
\* leaves the finished day as it is.
C16_FourStampLifecycle ==
    op = "update" =>
        LET ts == StampsOf(pre.today)
            k == Len(ts)
        IN  IF k <= 4
            THEN /\ ret.ok
                 /\ Last(log.entries) = TimeLogEntry(pre.today, StateOfTimes(ts))
            ELSE /\ ret = Err(ShiftComplete)
                 /\ log = pre
                 /\ Last(log.entries) =
                        TimeLogEntry(pre.today, StateOfTimes(SubSeq(ts, 1, 4)))

\* The fifth call of the second day fails after four stamps that differ,
\* the first day left unfinished.
C16_Witness ==
    /\ op = "update"
    /\ ~ret.ok
    /\ Len(log.entries) = 2
    /\ log.entries[1].state.variant = "MorningStarted"
    /\ Len(StampsOf(pre.today)) = 5
    /\ StampsOf(pre.today)[1] # StampsOf(pre.today)[2]
    /\ StampsOf(pre.today)[3] # StampsOf(pre.today)[4]

-----------------------------------------------------------------------------
\* C17: for every log of at least one entry reached from the empty log by
\* update calls, persist writes a header line and exactly one row per entry
\* in order, and from_file of the written file returns entries equal to the
\* entries of the log, also when the entries differ in the number of slots
\* they have filled.
C17_PersistRoundTrip ==
    /\ (op = "persist" /\ log.entries # <<>>) =>
           /\ disk.exists
           /\ disk.header # <<>>
           /\ Len(disk.rows) = Len(log.entries)
    /\ (op = "from_file(persisted)" /\ log.entries # <<>>) =>
           /\ ret.ok
           /\ ret.val.entries = log.entries

-----------------------------------------------------------------------------
\* The number of filled slots over all entries.
RECURSIVE Slots(_)
Slots(entries) ==
    IF entries = <<>> THEN 0
    ELSE Len(entries[1].state.times) + Slots(Tail(entries))

\* C18: a successful update raises the number of filled slots of the log by
\* exactly one, whether it appends a day or advances the last entry (a last
\* entry in FreshDay included); a failed update leaves the number as it was.
C18_SlotCounter ==
    op = "update" =>
        Slots(log.entries) = Slots(pre.entries) + (IF ret.ok THEN 1 ELSE 0)

\* A loaded last entry dated today with no slot filled gets its first.
C18_Witness ==
    /\ op = "update"
    /\ ret.ok
    /\ Len(pre.entries) = 2
    /\ Last(pre.entries).state.variant = "FreshDay"
    /\ Last(pre.entries).date = pre.today
    /\ Last(log.entries).state.variant = "MorningStarted"
    /\ Slots(log.entries) = Slots(pre.entries) + 1

\* C20: update fails exactly when the log is not empty and its last entry
\* is dated today and is DayFinished, and the error is ShiftComplete; with
\* an empty log, a last date before or after today in any state, or a last
\* entry dated today that is not finished, update succeeds.
C20_OnlyShiftComplete ==
    op = "update" =>
        /\ ~ret.ok <=> /\ pre.entries # <<>>
                       /\ Last(pre.entries).date = pre.today
                       /\ Last(pre.entries).state.variant = "DayFinished"
        /\ ~ret.ok => ret = Err(ShiftComplete)

\* A finished last day dated after today does not stop the update.
C20_Witness ==
    /\ op = "update"
    /\ ret.ok
    /\ pre.entries # <<>>
    /\ Last(pre.entries).state.variant = "DayFinished"
    /\ Last(pre.entries).date > pre.today

-----------------------------------------------------------------------------
\* Update calls under arbitrary clock readings.

MaxAnyCalls == 4

NextAny ==
    \/ LoadAbsent
    \/ Update(MaxAnyCalls)
    \/ \E now \in Clock : Again(now)

SpecAny == Init /\ [][NextAny]_vars

\* a is entry-wise and slot-wise a prefix of b: b keeps every entry of a at
\* its position with its date, and every time a has recorded in its slot.
SlotwisePrefix(a, b) ==
    /\ Len(a) <= Len(b)
    /\ \A i \in 1..Len(a) :
           /\ b[i].date = a[i].date
           /\ Len(a[i].state.times) <= Len(b[i].state.times)
           /\ SubSeq(b[i].state.times, 1, Len(a[i].state.times)) = a[i].state.times

\* C19: across any sequence of update calls under arbitrary (today, now)
\* readings no entry is removed or reordered, no date changes and a filled
\* slot keeps its time: the log before a call, and the log first loaded,
\* are entry-wise and slot-wise prefixes of the log now held.
C19_AppendOnly ==
    log # NoLog =>
        /\ SlotwisePrefix(start.entries, log.entries)
        /\ op = "update" => SlotwisePrefix(pre.entries, log.entries)

\* Four calls, the clock going back a day in between: the earlier day is
\* appended after the later one and stamped, and the first entry is still
\* in place with the two times it had before the last call.
C19_Witness ==
    /\ op = "update"
    /\ calls = 4
    /\ Len(log.entries) = 2
    /\ log.entries[1].date > log.entries[2].date
    /\ log.entries[1].state.variant = "MorningFinished"
    /\ log.entries[2].state.variant = "MorningFinished"
    /\ pre.entries[2].state.variant = "MorningStarted"
    /\ pre.entries[1] = log.entries[1]

=============================================================================
